---- MODULE Spec2Model ----
(***************************************************************************)
(* A model of the BLIF front end of arachne-pnr (src/src/blif.cc):         *)
(* the literal decoders, the directive parser, the net unifier and the     *)
(* consistency validator of BlifParser::parse.                             *)
(***************************************************************************)
EXTENDS Integers, Sequences, FiniteSets, TLC

(* ------------------------------------------------------------------ *)
(* Bounds of the model                                                 *)
(* ------------------------------------------------------------------ *)
\* lines read from the input by one parse
MaxLines == 6
\* unification edges in a graph handed to the unifier alone
MaxEdges == 3
\* unification edges and instances in a graph handed to the validator
MaxEdgesG == 1
MaxEdgesC == 3
MaxInst == 1
\* digits after a 0x prefix, digits after a 0b prefix, zeros after a decimal digit
MaxHexDigits == 2
MaxBinDigits == 3
MaxZeros == 20

(* ------------------------------------------------------------------ *)
(* The netlist graph                                                   *)
(* ------------------------------------------------------------------ *)
\* names of nets (and of the toplevel ports connected to them)
NetNames == {"a", "b", "c"}
GraphNets == {"a", "b"}

\* the standard models the parser refers to, each with the direction of its pins
StandardModels ==
  [SB_IO   |-> [PACKAGE_PIN |-> "INOUT", D_OUT_0 |-> "IN", D_IN_0 |-> "OUT"],
   SB_LUT4 |-> [I0 |-> "IN", O |-> "OUT"]]

io_model == "SB_IO"

VARIABLES
  pc,            \* position of parse(): loop, L, table, M, unify, ..., done, fatal
  err,           \* message of the fatal error, "" when none
  line,          \* words of the line read last
  nread,         \* number of lines read
  top,           \* TRUE when the top model exists
  ports,         \* toplevel ports: name -> direction
  nets,          \* nets of the top model: name -> [is_constant, constant]
  conn,          \* port -> connected net; a port is <<node, name>>, node 0 the top model
  instances,     \* instances of the top model: sequence of model names
  inst,          \* current instance (0: none)
  unify,         \* recorded unification edges <<driver, aliased>>
  names_n,       \* words.size() of the .names directive whose table is read
  names_net,     \* net of a 1-argument .names
  saw11,         \* a "1" "1" row was read in the current table
  rows,          \* rows read in the table of the last .names (history)
  replacement,   \* unifier: aliased net -> representative
  edge,          \* unifier: index of the next edge
  boundary_nets, \* validator: nets on an SB_IO PACKAGE_PIN
  conn0,         \* connections when unification starts (history)
  nets0,         \* nets when unification starts (history)
  models_seen,   \* number of .model directives dispatched (history)
  premature,     \* a directive needing the top model was dispatched before any .model (history)
  lit,           \* literal handed to a decoder
  dec            \* outcome of the decoder

vars == <<pc, err, line, nread, top, ports, nets, conn, instances, inst, unify,
          names_n, names_net, saw11, rows, replacement, edge, boundary_nets, conn0, nets0,
          models_seen, premature, lit, dec>>

parseVars == <<line, nread, top, ports, instances, inst, unify, names_n, names_net,
               saw11, rows, models_seen, premature>>
decVars == <<lit, dec>>

NoNet == "-"

\* Net::connections(): the ports connected to net n
connections(c, n) == {p \in DOMAIN c : c[p] = n}

\* Port::connection_other_port(): the other port of a net with exactly two connections
connection_other_port(c, p) ==
  IF p \notin DOMAIN c \/ Cardinality(connections(c, c[p])) # 2
    THEN {}
    ELSE connections(c, c[p]) \ {p}

\* direction of a port: of the top model's port, or of the pin of an instance
direction(pt, is, p) ==
  IF p[1] = 0 THEN pt[p[2]] ELSE StandardModels[is[p[1]]][p[2]]

\* Port::is_output(): the port drives its net (an input of the top model, an output of an instance)
is_output(pt, is, p) ==
  IF p[1] = 0 THEN direction(pt, is, p) = "IN" ELSE direction(pt, is, p) = "OUT"

\* Port::is_bidir()
is_bidir(pt, is, p) == direction(pt, is, p) = "INOUT"

\* Net::replace(new_n): every connection of net n is redirected onto new_n
replace(c, n, new_n) == [p \in DOMAIN c |-> IF c[p] = n THEN new_n ELSE c[p]]

\* Model::find_or_add_net(name)
find_or_add_net(ns, name) ==
  IF name \in DOMAIN ns THEN ns
  ELSE [x \in DOMAIN ns \cup {name} |->
          IF x = name THEN [is_constant |-> FALSE, constant |-> "UNDEF"] ELSE ns[x]]

\* Port::connect(net)
connect(c, p, n) == [q \in DOMAIN c \cup {p} |-> IF q = p THEN n ELSE c[q]]

Fatal(msg) == pc' = "fatal" /\ err' = msg

(* ------------------------------------------------------------------ *)
(* Net unifier (blif.cc 386-428)                                       *)
(* ------------------------------------------------------------------ *)
\* label M: a top model must exist
LabelM ==
  /\ pc = "M"
  /\ IF ~top
       THEN /\ Fatal("no top model has been defined")
            /\ UNCHANGED <<replacement, edge, conn0, nets0>>
       ELSE /\ pc' = "unify"
            /\ replacement' = <<>>
            /\ edge' = 1
            /\ conn0' = conn
            /\ nets0' = nets
            /\ UNCHANGED err
  /\ UNCHANGED <<parseVars, nets, conn, boundary_nets, decVars>>

\* lookup_or_default(replacement, r, nullptr) followed to its fixed point
RECURSIVE Representative(_, _)
Representative(repl, r) ==
  IF r \in DOMAIN repl THEN Representative(repl, repl[r]) ELSE r

\* the nets visited from n1 on the way to r, r excluded
RECURSIVE Visited(_, _, _)
Visited(repl, x, r) ==
  IF x = r THEN {} ELSE {x} \cup Visited(repl, repl[x], r)

\* Compress with every visited net mapped to the driver of the edge
Compress_onto_start(repl, n1, r) ==
  LET vis == Visited(repl, n1, r)
  IN  [x \in DOMAIN repl |-> IF x \in vis THEN n1 ELSE repl[x]]

\* path compression: every visited net maps to the representative
Compress(repl, n1, r) ==
  LET vis == Visited(repl, n1, r)
  IN  [x \in DOMAIN repl |-> IF x \in vis THEN r ELSE repl[x]]

\* extend(replacement, n2, r)
extend(repl, n2, r) == [x \in DOMAIN repl \cup {n2} |-> IF x = n2 THEN r ELSE repl[x]]

\* UnifyEdge without the test for an aliased net that is already a key
UnifyEdge_no_contains ==
  /\ pc = "unify"
  /\ edge <= Len(unify)
  /\ LET n1 == unify[edge][1]
         n2 == unify[edge][2]
         r  == Representative(replacement, n1)
         compressed == Compress(replacement, n1, r)
     IN  IF n2 = r
           THEN /\ Fatal(".names cycle")
                /\ replacement' = compressed
                /\ UNCHANGED <<conn, edge>>
           ELSE /\ conn' = replace(conn, n2, r)
                /\ replacement' = extend(compressed, n2, r)
                /\ edge' = edge + 1
                /\ UNCHANGED <<pc, err>>
  /\ UNCHANGED <<parseVars, nets, boundary_nets, conn0, nets0, decVars>>

\* UnifyEdge with the aliased net compared to the driver instead of its representative
UnifyEdge_cmp_driver ==
  /\ pc = "unify"
  /\ edge <= Len(unify)
  /\ LET n1 == unify[edge][1]
         n2 == unify[edge][2]
         r  == Representative(replacement, n1)
         compressed == Compress(replacement, n1, r)
     IN  IF n2 = n1
           THEN /\ Fatal(".names cycle")
                /\ replacement' = compressed
                /\ UNCHANGED <<conn, edge>>
           ELSE /\ conn' = replace(conn, n2, r)
                /\ IF n2 \in DOMAIN compressed
                     THEN /\ Fatal("conflicting .names outputs")
                          /\ replacement' = compressed
                          /\ UNCHANGED edge
                     ELSE /\ replacement' = extend(compressed, n2, r)
                          /\ edge' = edge + 1
                          /\ UNCHANGED <<pc, err>>
  /\ UNCHANGED <<parseVars, nets, boundary_nets, conn0, nets0, decVars>>

\* UnifyEdge with the connections redirected onto the driver instead of its representative
UnifyEdge_onto_driver ==
  /\ pc = "unify"
  /\ edge <= Len(unify)
  /\ LET n1 == unify[edge][1]
         n2 == unify[edge][2]
         r  == Representative(replacement, n1)
         compressed == Compress(replacement, n1, r)
     IN  IF n2 = r
           THEN /\ Fatal(".names cycle")
                /\ replacement' = compressed
                /\ UNCHANGED <<conn, edge>>
           ELSE /\ conn' = replace(conn, n2, n1)
                /\ IF n2 \in DOMAIN compressed
                     THEN /\ Fatal("conflicting .names outputs")
                          /\ replacement' = compressed
                          /\ UNCHANGED edge
                     ELSE /\ replacement' = extend(compressed, n2, r)
                          /\ edge' = edge + 1
                          /\ UNCHANGED <<pc, err>>
  /\ UNCHANGED <<parseVars, nets, boundary_nets, conn0, nets0, decVars>>

\* one iteration of the loop over the recorded edges
UnifyEdge ==
  /\ pc = "unify"
  /\ edge <= Len(unify)
  /\ LET n1 == unify[edge][1]
         n2 == unify[edge][2]
         r  == Representative(replacement, n1)
         compressed == Compress(replacement, n1, r)
     IN  IF n2 = r
           THEN /\ Fatal(".names cycle")
                /\ replacement' = compressed
                /\ UNCHANGED <<conn, edge>>
           ELSE /\ conn' = replace(conn, n2, r)
                /\ IF n2 \in DOMAIN compressed
                     THEN /\ Fatal("conflicting .names outputs")
                          /\ replacement' = compressed
                          /\ UNCHANGED edge
                     ELSE /\ replacement' = extend(compressed, n2, r)
                          /\ edge' = edge + 1
                          /\ UNCHANGED <<pc, err>>
  /\ UNCHANGED <<parseVars, nets, boundary_nets, conn0, nets0, decVars>>

\* Model::remove_net(n) for every key of the replacement map
remove_nets(ns, gone) == [x \in DOMAIN ns \ gone |-> ns[x]]

RemoveReplaced ==
  /\ pc = "unify"
  /\ edge > Len(unify)
  /\ nets' = remove_nets(nets, DOMAIN replacement)
  /\ pc' = "bidir"
  /\ UNCHANGED <<err, parseVars, conn, replacement, edge, boundary_nets, conn0, nets0, decVars>>

(* ------------------------------------------------------------------ *)
(* Consistency validator (blif.cc 430-483)                             *)
(* ------------------------------------------------------------------ *)
\* the toplevel ports of the top model
top_ports(pt) == {<<0, name>> : name \in DOMAIN pt}

\* bad_bidir without the test of the pin's name
bad_bidir_any_pin(pt, is, c, p) ==
  /\ is_bidir(pt, is, p)
  /\ p \in DOMAIN c
  /\ LET q == connection_other_port(c, p)
     IN  \/ q = {}
         \/ \E o \in q : \/ o[1] = 0
                         \/ is[o[1]] # io_model

\* the condition under which a toplevel inout port is reported
bad_bidir(pt, is, c, p) ==
  /\ is_bidir(pt, is, p)
  /\ p \in DOMAIN c
  /\ LET q == connection_other_port(c, p)
     IN  \/ q = {}
         \/ \E o \in q : \/ o[1] = 0
                         \/ is[o[1]] # io_model
                         \/ o[2] # "PACKAGE_PIN"

\* the loop over top->ports()
BidirCheck ==
  /\ pc = "bidir"
  /\ IF \E p \in top_ports(ports) : bad_bidir(ports, instances, conn, p)
       THEN Fatal("toplevel inout port not connected to SB_IO PACKAGE_PIN")
       ELSE pc' = "boundary" /\ UNCHANGED err
  /\ UNCHANGED <<parseVars, nets, conn, replacement, edge, boundary_nets, conn0, nets0, decVars>>

\* the SB_IO instances of the top model
io_instances(is) == {i \in 1..Len(is) : is[i] = io_model}

\* the condition under which the PACKAGE_PIN of SB_IO instance i is reported
bad_package_pin(c, i) ==
  LET p == <<i, "PACKAGE_PIN">>
      q == connection_other_port(c, p)
  IN  \/ p \notin DOMAIN c
      \/ q = {}
      \/ \E o \in q : o[1] # 0

\* the loop over top->instances()
BoundaryNets ==
  /\ pc = "boundary"
  /\ IF \E i \in io_instances(instances) : bad_package_pin(conn, i)
       THEN /\ Fatal("SB_IO PACKAGE_PIN not connected to toplevel port")
            /\ UNCHANGED boundary_nets
       ELSE /\ boundary_nets' = {conn[<<i, "PACKAGE_PIN">>] : i \in io_instances(instances)}
            /\ pc' = "drivers"
            /\ UNCHANGED err
  /\ UNCHANGED <<parseVars, nets, conn, replacement, edge, conn0, nets0, decVars>>

\* n_drivers with the constant of the net left out of the count
n_drivers_ports_only(ns, pt, is, c, n) ==
  Cardinality({p \in connections(c, n) : is_output(pt, is, p)})

\* n_drivers of net n
n_drivers(ns, pt, is, c, n) ==
  (IF ns[n].is_constant THEN 1 ELSE 0)
  + Cardinality({p \in connections(c, n) : is_output(pt, is, p)})

\* the nets the driver loop reports
multiple_drivers(ns, pt, is, c, bn) ==
  {n \in DOMAIN ns \ bn : n_drivers(ns, pt, is, c, n) > 1}

\* the loop over top->nets(), and the return of the design
DriverCheck ==
  /\ pc = "drivers"
  /\ IF multiple_drivers(nets, ports, instances, conn, boundary_nets) # {}
       THEN Fatal("net has multiple drivers")
       ELSE pc' = "done" /\ UNCHANGED err
  /\ UNCHANGED <<parseVars, nets, conn, replacement, edge, boundary_nets, conn0, nets0, decVars>>

NextPost ==
  \/ LabelM
  \/ UnifyEdge
  \/ RemoveReplaced
  \/ BidirCheck
  \/ BoundaryNets
  \/ DriverCheck

(* ------------------------------------------------------------------ *)
(* The unifier on the edge lists a parse can record                    *)
(* ------------------------------------------------------------------ *)
\* sequences of at most n elements of S
SeqUpTo(S, n) == UNION {[1..m -> S] : m \in 0..n}

NoConst == [is_constant |-> FALSE, constant |-> "UNDEF"]

\* state at label M of a parse without syntax error: a top model whose
\* port a is an input and ports b, c are outputs, one SB_LUT4 with any wiring,
\* any edge list
InitUnify ==
  /\ pc = "M" /\ err = ""
  /\ line = <<>> /\ nread = 0
  /\ top = TRUE
  /\ ports = [n \in NetNames |-> IF n = "a" THEN "IN" ELSE "OUT"]
  /\ nets = [n \in NetNames |-> NoConst]
  /\ instances = <<"SB_LUT4">>
  /\ inst = 1
  /\ \E w \in [{"I0", "O"} -> NetNames \cup {NoNet}] :
       conn = [p \in top_ports(ports) \cup {<<1, f>> : f \in {f \in {"I0", "O"} : w[f] # NoNet}}
                 |-> IF p[1] = 0 THEN p[2] ELSE w[p[2]]]
  /\ unify \in SeqUpTo(NetNames \X NetNames, MaxEdges)
  /\ names_n = 0 /\ names_net = NoNet /\ saw11 = FALSE /\ rows = <<>>
  /\ replacement = <<>> /\ edge = 1 /\ boundary_nets = {}
  /\ conn0 = conn
  /\ nets0 = nets
  /\ models_seen = 1 /\ premature = FALSE
  /\ lit = <<>> /\ dec = [ret |-> "none", out |-> <<>>, msg |-> ""]

SpecUnify == InitUnify /\ [][NextPost]_vars

\* state at label M of a parse that recorded edges over four nets: a top
\* model with input port a and any edge list
ChainNets == {"a", "b", "c", "d"}

InitChain ==
  /\ pc = "M" /\ err = ""
  /\ line = <<>> /\ nread = 0
  /\ top = TRUE
  /\ ports = [n \in {"a"} |-> "IN"]
  /\ nets = [n \in ChainNets |-> NoConst]
  /\ instances = <<>>
  /\ inst = 0
  /\ conn = [p \in top_ports(ports) |-> p[2]]
  /\ unify \in SeqUpTo(ChainNets \X ChainNets, MaxEdgesC)
  /\ names_n = 0 /\ names_net = NoNet /\ saw11 = FALSE /\ rows = <<>>
  /\ replacement = <<>> /\ edge = 1 /\ boundary_nets = {}
  /\ conn0 = conn
  /\ nets0 = nets
  /\ models_seen = 1 /\ premature = FALSE
  /\ lit = <<>> /\ dec = [ret |-> "none", out |-> <<>>, msg |-> ""]

SpecChain == InitChain /\ [][NextPost]_vars

(* ------------------------------------------------------------------ *)
(* The unifier and the validator on the graphs a parse can build       *)
(* ------------------------------------------------------------------ *)
\* an instance with at most one connected pin
InstanceChoices ==
  [model : {"SB_IO"}, pin : {"PACKAGE_PIN", "D_IN_0"}, net : GraphNets \cup {NoNet}]
  \cup [model : {"SB_LUT4"}, pin : {"O"}, net : GraphNets]

\* state at label M of a parse without syntax error: any toplevel ports, each
\* on the net of its name, any constants, instances and edges
InitGraph ==
  /\ pc = "M" /\ err = ""
  /\ line = <<>> /\ nread = 0
  /\ top = TRUE
  /\ \E pn \in SUBSET GraphNets : ports \in [pn -> {"IN", "OUT", "INOUT"}]
  /\ \E is \in SeqUpTo(InstanceChoices, MaxInst) :
       /\ instances = [i \in 1..Len(is) |-> is[i].model]
       /\ inst = Len(is)
       /\ conn = [p \in top_ports(ports)
                        \cup {<<i, is[i].pin>> : i \in {j \in 1..Len(is) : is[j].net # NoNet}}
                   |-> IF p[1] = 0 THEN p[2] ELSE is[p[1]].net]
  /\ unify \in SeqUpTo(GraphNets \X GraphNets, MaxEdgesG)
  /\ \E cs \in SUBSET GraphNets :
       nets = [n \in cs \cup {conn[p] : p \in DOMAIN conn}
                         \cup {unify[i][1] : i \in 1..Len(unify)}
                         \cup {unify[i][2] : i \in 1..Len(unify)}
                 |-> IF n \in cs THEN [is_constant |-> TRUE, constant |-> "ZERO"] ELSE NoConst]
  /\ names_n = 0 /\ names_net = NoNet /\ saw11 = FALSE /\ rows = <<>>
  /\ replacement = <<>> /\ edge = 1 /\ boundary_nets = {}
  /\ conn0 = conn
  /\ nets0 = nets
  /\ models_seen = 1 /\ premature = FALSE
  /\ lit = <<>> /\ dec = [ret |-> "none", out |-> <<>>, msg |-> ""]

SpecGraph == InitGraph /\ [][NextPost]_vars

(* ------------------------------------------------------------------ *)
(* Claims about the unifier and the validator                          *)
(* ------------------------------------------------------------------ *)
Validated == {"bidir", "boundary", "drivers", "done"}

\* the nets whose connections an edge list merges into net n: n itself and
\* every net reached from n along edges, driver to aliased
RECURSIVE AliasedFrom(_, _)
AliasedFrom(S, es) ==
  LET more == S \cup {es[i][2] : i \in {j \in 1..Len(es) : es[j][1] \in S}}
  IN  IF more = S THEN S ELSE AliasedFrom(more, es)

AliasedOnto(n, es) == AliasedFrom({n}, es)

\* the edge list has a directed cycle
HasCycle(es) ==
  \E i \in 1..Len(es) : es[i][1] \in AliasedOnto(es[i][2], es)

\* the ports that drive net n, and the number of drivers of n
OutputRolePorts(n) ==
  {p \in DOMAIN conn : /\ conn[p] = n
                       /\ \/ p[1] = 0 /\ ports[p[2]] = "IN"
                          \/ p[1] # 0 /\ StandardModels[instances[p[1]]][p[2]] = "OUT"}

Drivers(n) == (IF nets[n].is_constant THEN 1 ELSE 0) + Cardinality(OutputRolePorts(n))

\* the nets on an SB_IO PACKAGE_PIN whose only other port is a port of the top model
BoundarySet ==
  {n \in DOMAIN nets :
     \E i \in 1..Len(instances) :
        /\ instances[i] = "SB_IO"
        /\ <<i, "PACKAGE_PIN">> \in DOMAIN conn
        /\ conn[<<i, "PACKAGE_PIN">>] = n
        /\ \E name \in DOMAIN ports :
             connections(conn, n) = {<<i, "PACKAGE_PIN">>, <<0, name>>}}

\* the net of toplevel port name has exactly one other port, the PACKAGE_PIN of an SB_IO
InoutWired(name) ==
  LET others == connections(conn, conn[<<0, name>>]) \ {<<0, name>>}
  IN  /\ Cardinality(others) = 1
      /\ \A q \in others : /\ q[1] # 0
                           /\ instances[q[1]] = "SB_IO"
                           /\ q[2] = "PACKAGE_PIN"

\* the connected toplevel inout ports
InoutPorts == {name \in DOMAIN ports : ports[name] = "INOUT" /\ <<0, name>> \in DOMAIN conn}

\* the messages of the validator
ValidatorErrors ==
  {"toplevel inout port not connected to SB_IO PACKAGE_PIN",
   "SB_IO PACKAGE_PIN not connected to toplevel port",
   "net has multiple drivers"}

\* C1 as claimed: a returned design has at most one driver on every net
\* outside the boundary set, and every unified graph with a net outside the
\* boundary set that has two or more drivers is rejected with "net has
\* multiple drivers"
C1_RejectedWithMultipleDrivers ==
  /\ pc = "done" => \A n \in DOMAIN nets \ BoundarySet : Drivers(n) <= 1
  /\ ((pc = "done" \/ (pc = "fatal" /\ err \in ValidatorErrors))
        /\ \E n \in DOMAIN nets \ BoundarySet : Drivers(n) >= 2) =>
       (pc = "fatal" /\ err = "net has multiple drivers")

\* C1 as amended: a returned design has at most one driver on every net
\* outside the boundary set, so a unified graph with two or more drivers on
\* such a net is always rejected; the message is "net has multiple drivers"
\* when the two checks that run first pass, and that message is given only
\* for a net outside the boundary set that has two or more drivers
C1_SingleDriver ==
  /\ pc = "done" =>
       /\ boundary_nets = BoundarySet
       /\ \A n \in DOMAIN nets \ BoundarySet : Drivers(n) <= 1
  /\ (pc = "fatal" /\ err = "net has multiple drivers") =>
       /\ \E n \in DOMAIN nets \ BoundarySet : Drivers(n) >= 2
       /\ \A name \in InoutPorts : InoutWired(name)
       /\ boundary_nets = BoundarySet
  /\ (pc = "drivers" /\ \E n \in DOMAIN nets \ BoundarySet : Drivers(n) >= 2) =>
       multiple_drivers(nets, ports, instances, conn, boundary_nets) # {}

\* a design is returned whose boundary net has two drivers while another net has one
C1_Witness ==
  /\ pc = "done"
  /\ \E n \in BoundarySet : Drivers(n) = 2
  /\ \E n \in DOMAIN nets \ BoundarySet : Drivers(n) = 1

\* C2: an edge list with a directed cycle never gets through the unifier, and
\* the error it ends in is one of the unifier's
C2_CycleRejected ==
  HasCycle(unify) =>
    /\ pc \notin Validated
    /\ ~(pc = "unify" /\ edge > Len(unify))
    /\ pc = "fatal" => err \in {".names cycle", "conflicting .names outputs"}

\* a cycle through three nets is reported at its third edge
C2_Witness ==
  /\ pc = "fatal" /\ err = ".names cycle"
  /\ Len(unify) = 3 /\ edge = 3
  /\ \A i \in 1..3 : unify[i][1] # unify[i][2]
  /\ {unify[i][2] : i \in 1..3} = NetNames
  /\ unify[1][2] = unify[2][1] /\ unify[2][2] = unify[3][1] /\ unify[3][2] = unify[1][1]

\* C3: once the unifier is through, every aliased net is removed, no port is
\* connected to a removed net, both nets of every edge were merged into a net
\* that survives, and every surviving net is connected to exactly the original
\* connections of the nets aliased onto it
C3_UnifyMerges ==
  pc \in Validated =>
    /\ \A i \in 1..Len(unify) : unify[i][2] \notin DOMAIN nets
    /\ \A p \in DOMAIN conn : conn[p] \in DOMAIN nets
    /\ DOMAIN conn = DOMAIN conn0
    /\ \A i \in 1..Len(unify) :
         \E r \in DOMAIN nets : {unify[i][1], unify[i][2]} \subseteq AliasedOnto(r, unify)
    /\ \A r \in DOMAIN nets :
         connections(conn, r) = UNION {connections(conn0, m) : m \in AliasedOnto(r, unify)}

\* a chain of two edges was merged into one surviving net
C3_Witness ==
  /\ pc \in Validated
  /\ Len(unify) = 2
  /\ unify[1][2] = unify[2][1]
  /\ \E r \in DOMAIN nets : /\ AliasedOnto(r, unify) = NetNames
                            /\ Cardinality(connections(conn, r)) >= 4

\* C4: past the bidirectional check, the net of every connected toplevel inout
\* port has exactly one other port, the PACKAGE_PIN of an SB_IO instance; and
\* the check reports only a port for which this fails
C4_BidirWiring ==
  /\ pc \in {"boundary", "drivers", "done"} => \A name \in InoutPorts : InoutWired(name)
  /\ (pc = "fatal" /\ err = "toplevel inout port not connected to SB_IO PACKAGE_PIN") =>
       \E name \in InoutPorts : ~InoutWired(name)

\* a design with a toplevel inout port on an SB_IO PACKAGE_PIN is returned
C4_Witness ==
  /\ pc = "done"
  /\ InoutPorts # {}

\* C17: when the aliased net of the edge being processed is the aliased net
\* of an earlier edge, the same edge recorded twice included, processing it
\* ends in a fatal error; the unifier never gets past such an edge and no
\* design is returned
C17_ConflictingOutputs ==
  /\ [](\A j \in 1..Len(unify) :
          (\E i \in 1..(j - 1) : unify[i][2] = unify[j][2]) =>
            (edge <= j /\ pc \notin Validated))
  /\ [][(pc = "unify" /\ edge <= Len(unify)
           /\ \E i \in 1..(edge - 1) : unify[i][2] = unify[edge][2]) =>
          pc' = "fatal"]_vars

\* the same edge recorded twice: fatal at the second one
C17_Witness ==
  /\ pc = "fatal" /\ err = "conflicting .names outputs"
  /\ edge = 2
  /\ unify[1] = unify[2]

\* the ports in output role connected to net n when unification starts
OutputRolePorts0(n) ==
  {p \in DOMAIN conn0 : /\ conn0[p] = n
                        /\ \/ p[1] = 0 /\ ports[p[2]] = "IN"
                           \/ p[1] # 0 /\ StandardModels[instances[p[1]]][p[2]] = "OUT"}

\* when unification starts some edge aliases a constant net onto a driver
\* net, and the two nets have another driver between them: the driver net is
\* constant too, or a port in output role is connected to either net
ConstantAliasedWithDriver ==
  \E i \in 1..Len(unify) :
     LET A == unify[i][1]
         B == unify[i][2]
     IN  /\ A # B
         /\ {A, B} \subseteq DOMAIN nets0
         /\ nets0[B].is_constant
         /\ nets0[A].is_constant \/ OutputRolePorts0(A) \cup OutputRolePorts0(B) # {}

\* no toplevel inout port and no SB_IO: the driver check is the only check
\* of the validator that can fail
OnlyDriverCheck ==
  /\ \A n \in DOMAIN ports : ports[n] # "INOUT"
  /\ \A i \in 1..Len(instances) : instances[i] # "SB_IO"

\* C18: a constant net aliased by an edge still counts as a driver of the
\* merged net: when the merged net has that constant and another driver, no
\* design is returned and the validator's error is 'net has multiple drivers'
C18_ConstantStillDrives ==
  (ConstantAliasedWithDriver /\ OnlyDriverCheck) =>
    /\ pc # "done"
    /\ (pc = "fatal" /\ err \in ValidatorErrors) => err = "net has multiple drivers"

\* the net reached from x in at most k steps along the map, none when the
\* walk has not left the keys by then
RECURSIVE Follow(_, _, _)
Follow(repl, x, k) ==
  IF x \notin DOMAIN repl THEN x
  ELSE IF k = 0 THEN NoNet
  ELSE Follow(repl, repl[x], k - 1)

\* the representative of x, none when the walk from x does not end
Root(repl, x) == Follow(repl, x, Cardinality(DOMAIN repl))

\* no walk along the map comes back to a key
Acyclic(repl) == \A x \in DOMAIN repl : Root(repl, x) # NoNet

\* the nets on the walk from x to the end of the walk, the end excluded
RECURSIVE Path(_, _, _)
Path(repl, x, k) ==
  IF x \notin DOMAIN repl \/ k = 0 THEN {} ELSE {x} \cup Path(repl, repl[x], k - 1)

\* C20: the replacement map is always acyclic, so every resolution loop ends
\* at a net that is no key and every net it visits is a key; an edge
\* processed without error leaves every net visited from its driver mapped
\* directly to the representative, the aliased net mapped to it too, and
\* every other net with the representative it had (the aliased net's former
\* members moving with it); an edge that is fatal changes no representative
C20_UnionFind ==
  /\ [](Acyclic(replacement) /\ \A x \in ChainNets : Root(replacement, x) \notin DOMAIN replacement)
  /\ [][(pc = "unify" /\ edge <= Len(unify)) =>
          LET n1 == unify[edge][1]
              n2 == unify[edge][2]
              r  == Root(replacement, n1)
          IN  /\ r \notin DOMAIN replacement'
              /\ \A x \in Path(replacement, n1, Cardinality(DOMAIN replacement)) :
                   replacement'[x] = r
              /\ IF pc' = "fatal"
                   THEN \A x \in ChainNets : Root(replacement', x) = Root(replacement, x)
                   ELSE /\ replacement'[n2] = r
                        /\ \A x \in ChainNets :
                             Root(replacement', x) =
                               IF Root(replacement, x) = n2 THEN r ELSE Root(replacement, x)]_vars

\* an edge was processed without error whose driver was two steps away from
\* its representative: the driver now maps directly to it
C20_Witness ==
  /\ pc = "unify" /\ edge = 4
  /\ unify = << <<"a", "b">>, <<"c", "a">>, <<"b", "d">> >>
  /\ replacement = [x \in {"a", "b", "d"} |-> "c"]

(* ------------------------------------------------------------------ *)
(* Literal decoders (blif.cc 41-138)                                   *)
(* ------------------------------------------------------------------ *)
DigitChars == <<"0", "1", "2", "3", "4", "5", "6", "7", "8", "9">>
UpperChars == <<"A", "B", "C", "D", "E", "F", "G", "H", "I", "J", "K", "L", "M",
                "N", "O", "P", "Q", "R", "S", "T", "U", "V", "W", "X", "Y", "Z">>
LowerChars == <<"a", "b", "c", "d", "e", "f", "g", "h", "i", "j", "k", "l", "m",
                "n", "o", "p", "q", "r", "s", "t", "u", "v", "w", "x", "y", "z">>

\* position of character c in a sequence of characters, 0 when absent
IndexOf(chars, c) ==
  IF \E i \in 1..Len(chars) : chars[i] = c
    THEN CHOOSE i \in 1..Len(chars) : chars[i] = c
    ELSE 0

toupper(c) == IF IndexOf(LowerChars, c) # 0 THEN UpperChars[IndexOf(LowerChars, c)] ELSE c

getNumericValue(c) ==
  LET u == toupper(c)
  IN  IF IndexOf(DigitChars, u) # 0 THEN IndexOf(DigitChars, u) - 1
      ELSE IF IndexOf(UpperChars, u) # 0 THEN (IndexOf(UpperChars, u) - 1) + 10
      ELSE -1

\* uint64_t: four 16-bit limbs, least significant first
LimbBase == 2^16
U64Zero == <<0, 0, 0, 0>>

\* MulAdd64 with the carry between the limbs dropped
MulAdd64_no_carry(v, m, c) ==
  <<(v[1] * m + c) % LimbBase, (v[2] * m) % LimbBase, (v[3] * m) % LimbBase,
    (v[4] * m) % LimbBase>>

\* intval * 10 + cval in 64-bit unsigned arithmetic
MulAdd64(v, m, c) ==
  LET t1 == v[1] * m + c
      t2 == v[2] * m + (t1 \div LimbBase)
      t3 == v[3] * m + (t2 \div LimbBase)
      t4 == v[4] * m + (t3 \div LimbBase)
  IN  <<t1 % LimbBase, t2 % LimbBase, t3 % LimbBase, t4 % LimbBase>>

\* a < b on uint64_t
Less64(a, b) ==
  \E i \in 1..4 : a[i] < b[i] /\ \A j \in (i+1)..4 : a[j] = b[j]

\* BitVector(64, intval): bit i of the vector is element i+1
BitVector64(v) ==
  [i \in 1..64 |-> (v[((i - 1) \div 16) + 1] \div (2^((i - 1) % 16))) % 2 = 1]

Result(ret, out, msg) == [ret |-> ret, out |-> out, msg |-> msg]

\* the radix 10 loop of radiant_stobv
RECURSIVE decimal_loop(_, _, _)
decimal_loop(s, offset, intval) ==
  IF offset >= Len(s) THEN Result("true", BitVector64(intval), "")
  ELSE LET cval == getNumericValue(s[offset + 1])
           next == MulAdd64(intval, 10, cval)
       IN  IF cval = -1 THEN Result("false", <<>>, "")
           ELSE IF Less64(next, intval)
             THEN Result("fatal", <<>>, "decimal integer overflow in parameter")
           ELSE decimal_loop(s, offset + 1, next)

\* the radix 2, 8, 16 loop of radiant_stobv; out has n bits, and msg records
\* whether a bit outside them was assigned
RECURSIVE radix_loop(_, _, _, _, _, _)
radix_loop(s, n, log2base, i, out, outside) ==
  IF i >= n THEN Result("true", out, outside)
  ELSE LET cval == getNumericValue(s[Len(s) - i]) IN
       IF cval = -1 THEN Result("false", <<>>, outside)
       ELSE radix_loop(s, n, log2base, i + 1,
              [b \in 1..n |->
                 IF \E j \in 0..(log2base - 1) : b = i * log2base + j + 1
                   THEN (cval \div (2^(b - 1 - i * log2base))) % 2 = 1
                   ELSE out[b]],
              IF \E j \in 0..(log2base - 1) : i * log2base + j >= n
                THEN "outside" ELSE outside)

\* base, log2base and offset chosen from the prefix of the string
radix_prefix(s) ==
  IF Len(s) >= 2 /\ s[1] = "0"
    THEN IF s[2] = "x" THEN [base |-> 16, log2base |-> 4, offset |-> 2]
         ELSE IF s[2] = "b" THEN [base |-> 2, log2base |-> 1, offset |-> 2]
         ELSE [base |-> 8, log2base |-> 3, offset |-> 1]
    ELSE [base |-> 10, log2base |-> -1, offset |-> 0]

\* BitVector::operator[] with an index outside the vector: the assertion of the
\* index fails, or the assignment leaves the bits of the vector as they are
index_outside(r) ==
  IF r.msg = "outside"
    THEN {Result("abort", <<>>, "BitVector index out of range"), Result(r.ret, r.out, "")}
    ELSE {Result(r.ret, r.out, "")}

\* radiant_stobv(s_, out): the outcomes of the call
radiant_stobv(s) ==
  IF Len(s) > 0
    THEN LET pre == radix_prefix(s) IN
         IF pre.base = 10
           THEN {decimal_loop(s, pre.offset, U64Zero)}
           ELSE LET n == Len(s) - pre.offset
                IN  index_outside(radix_loop(s, n, pre.log2base, 0, [b \in 1..n |-> FALSE], ""))
    ELSE {Result("false", <<>>, "")}

\* the loop of stobv with the string read from its first character
RECURSIVE stobv_loop_forward(_, _, _)
stobv_loop_forward(s, i, bv) ==
  IF i >= Len(s) THEN Result("true", bv, "")
  ELSE LET c == s[i + 1] IN
       IF c = "1" THEN stobv_loop_forward(s, i + 1, [bv EXCEPT ![i + 1] = TRUE])
       ELSE IF c = "0" \/ c = "x" \/ c = "X" THEN stobv_loop_forward(s, i + 1, bv)
       ELSE Result("fatal", <<>>, "invalid character in integer constant")

\* the loop of stobv: bit i is taken from character (n - 1) - i
RECURSIVE stobv_loop(_, _, _)
stobv_loop(s, i, bv) ==
  IF i >= Len(s) THEN Result("true", bv, "")
  ELSE LET c == s[Len(s) - i] IN
       IF c = "1" THEN stobv_loop(s, i + 1, [bv EXCEPT ![i + 1] = TRUE])
       ELSE IF c = "0" \/ c = "x" \/ c = "X" THEN stobv_loop(s, i + 1, bv)
       ELSE Result("fatal", <<>>, "invalid character in integer constant")

\* stobv(s_): BitVector bv(n), then the loop
stobv(s) == stobv_loop(s, 0, [b \in 1..Len(s) |-> FALSE])

\* the unquoted .attr or .param value is decoded
Stobv ==
  /\ pc = "decode"
  /\ dec' = stobv(lit)
  /\ pc' = "constant"
  /\ UNCHANGED <<err, parseVars, nets, conn, replacement, edge, boundary_nets, conn0, nets0, lit>>

\* the quoted .param value is decoded
RadiantStobv ==
  /\ pc = "decode"
  /\ \E o \in radiant_stobv(lit) : dec' = o
  /\ pc' = "decoded"
  /\ UNCHANGED <<err, parseVars, nets, conn, replacement, edge, boundary_nets, conn0, nets0, lit>>

NextDecode ==
  \/ RadiantStobv
  \/ Stobv

\* a character repeated k times
Repeat(c, k) == [i \in 1..k |-> c]

HexAlphabet == {"0", "1", "7", "a", "F"}
U64MaxDigits == <<"1", "8", "4", "4", "6", "7", "4", "4", "0", "7",
                  "3", "7", "0", "9", "5", "5", "1", "6", "1", "5">>

\* the literals decoded: 0x and 0b literals, a decimal digit followed by
\* zeros, the decimals around 2^64, other decimals with and without a leading
\* zero, literals with a character that is no digit of the radix, and the
\* strings over 0, 1, x, X and 2
Literals ==
  {<<"0", "x">> \o d : d \in SeqUpTo(HexAlphabet, MaxHexDigits)}
  \cup {<<"0", "b">> \o d : d \in SeqUpTo({"0", "1"}, MaxBinDigits)}
  \cup {<<DigitChars[d]>> \o Repeat("0", k) : d \in 2..10, k \in 0..MaxZeros}
  \cup {SubSeq(U64MaxDigits, 1, 19) \o <<c>> : c \in {"4", "5", "6", "9"}}
  \cup {<<>>, <<"0">>}
  \cup {<<"4", "2">>, <<"1", "2", "3", "4", "5">>,
        <<"9", "8", "7", "6", "5", "4", "3", "2", "1", "0", "9", "8", "7">>,
        <<"0", "1">>, <<"0", "0", "7">>, <<"0", "9">>, <<"0", "1", "2", "3">>}
  \cup {<<"1", "2", "a">>, <<"1", "-", "2">>, <<"7", "Z">>, <<"-">>,
        <<"0", "b", "2">>, <<"0", "b", "1", "-">>, <<"0", "b", "-", "1">>,
        <<"0", "x", "g">>, <<"0", "x", "-">>, <<"0", "8">>, <<"0", "-">>}
  \cup SeqUpTo({"0", "1", "x", "X", "2"}, MaxBinDigits)

InitDecode ==
  /\ pc = "decode" /\ err = ""
  /\ line = <<>> /\ nread = 0
  /\ top = FALSE
  /\ ports = <<>> /\ nets = <<>> /\ conn = <<>>
  /\ instances = <<>> /\ inst = 0
  /\ unify = <<>>
  /\ names_n = 0 /\ names_net = NoNet /\ saw11 = FALSE /\ rows = <<>>
  /\ replacement = <<>> /\ edge = 1 /\ boundary_nets = {}
  /\ conn0 = <<>>
  /\ nets0 = <<>>
  /\ models_seen = 0 /\ premature = FALSE
  /\ lit \in Literals
  /\ dec = Result("none", <<>>, "")

SpecDecode == InitDecode /\ [][NextDecode]_vars

(* ------------------------------------------------------------------ *)
(* Claims about the literal decoders                                   *)
(* ------------------------------------------------------------------ *)
\* s is prefix followed by d digits of the radix, d >= 0
WellFormed(s, prefix, radix) ==
  /\ Len(s) >= 2
  /\ SubSeq(s, 1, 2) = prefix
  /\ \A i \in 3..Len(s) : getNumericValue(s[i]) \in 0..(radix - 1)

\* the decoding of the d digits after the prefix at k bits per digit: width
\* d*k, and bit i*k+j is bit j of the i-th digit from the least significant end
DecodesDigits(s, k) ==
  LET d == Len(s) - 2 IN
  /\ dec.ret = "true"
  /\ Len(dec.out) = d * k
  /\ \A i \in 0..(d - 1) : \A j \in 0..(k - 1) :
       dec.out[i * k + j + 1] = ((getNumericValue(s[Len(s) - i]) \div (2^j)) % 2 = 1)

\* C9: a well-formed 0x literal of d digits decodes to d*4 bits and a
\* well-formed 0b literal of d digits to d bits, each digit in its place
C9_RadixWidth ==
  pc = "decoded" =>
    /\ WellFormed(lit, <<"0", "x">>, 16) => DecodesDigits(lit, 4)
    /\ WellFormed(lit, <<"0", "b">>, 2) => DecodesDigits(lit, 1)

\* s is a string of decimal digits, without leading zero, above 2^64 - 1
RECURSIVE DigitsGreater(_, _)
DigitsGreater(s, t) ==
  /\ s # <<>>
  /\ \/ IndexOf(DigitChars, s[1]) > IndexOf(DigitChars, t[1])
     \/ s[1] = t[1] /\ DigitsGreater(Tail(s), Tail(t))

ExceedsU64(s) ==
  /\ Len(s) >= 1
  /\ \A i \in 1..Len(s) : IndexOf(DigitChars, s[i]) # 0
  /\ s[1] # "0"
  /\ \/ Len(s) > Len(U64MaxDigits)
     \/ Len(s) = Len(U64MaxDigits) /\ DigitsGreater(s, U64MaxDigits)

\* C10: a decimal digit string above 2^64 - 1 always ends in the fatal error
\* "decimal integer overflow in parameter"
C10_DecimalOverflowFatal ==
  (pc = "decoded" /\ ExceedsU64(lit)) =>
    (dec.ret = "fatal" /\ dec.msg = "decimal integer overflow in parameter")

\* the radix the prefix of s selects, and the characters after the prefix
RadixOf(s) ==
  IF Len(s) >= 2 /\ s[1] = "0"
    THEN IF s[2] = "x" THEN 16 ELSE IF s[2] = "b" THEN 2 ELSE 8
    ELSE 10

AfterPrefix(s) ==
  IF Len(s) >= 2 /\ s[1] = "0"
    THEN IF s[2] \in {"x", "b"} THEN SubSeq(s, 3, Len(s)) ELSE SubSeq(s, 2, Len(s))
    ELSE s

\* the digit value of an alphanumeric character, -1 for any other character
DigitValue(c) ==
  IF IndexOf(DigitChars, c) # 0 THEN IndexOf(DigitChars, c) - 1
  ELSE IF IndexOf(UpperChars, c) # 0 THEN IndexOf(UpperChars, c) + 9
  ELSE IF IndexOf(LowerChars, c) # 0 THEN IndexOf(LowerChars, c) + 9
  ELSE -1

\* some character after the prefix is not alphanumeric or is no digit of the radix
HasMisfit(s) ==
  \E i \in 1..Len(AfterPrefix(s)) :
     DigitValue(AfterPrefix(s)[i]) = -1 \/ DigitValue(AfterPrefix(s)[i]) >= RadixOf(s)

\* C11: a literal with a character after the prefix that is not alphanumeric
\* or has a digit value not below the radix is not decoded, without fatal error
C11_MisfitFallsBack ==
  (pc = "decoded" /\ HasMisfit(lit)) => dec.ret = "false"

\* limb k (0 the least significant) of the value of a 64-bit vector, bit 0 first
Bit(bv, i) == IF bv[i + 1] THEN 1 ELSE 0

Limb(bv, k) ==
  LET o == 16 * k
  IN  Bit(bv, o) + 2 * Bit(bv, o + 1) + 4 * Bit(bv, o + 2) + 8 * Bit(bv, o + 3)
      + 16 * Bit(bv, o + 4) + 32 * Bit(bv, o + 5) + 64 * Bit(bv, o + 6)
      + 128 * Bit(bv, o + 7) + 256 * Bit(bv, o + 8) + 512 * Bit(bv, o + 9)
      + 1024 * Bit(bv, o + 10) + 2048 * Bit(bv, o + 11) + 4096 * Bit(bv, o + 12)
      + 8192 * Bit(bv, o + 13) + 16384 * Bit(bv, o + 14) + 32768 * Bit(bv, o + 15)

\* division of a number of four limbs by ten: quotient and remainder
DivTen(v) ==
  LET t4 == v[4]
      t3 == (t4 % 10) * LimbBase + v[3]
      t2 == (t3 % 10) * LimbBase + v[2]
      t1 == (t2 % 10) * LimbBase + v[1]
  IN  [q |-> <<t1 \div 10, t2 \div 10, t3 \div 10, t4 \div 10>>, r |-> t1 % 10]

\* the decimal digits of a number of four limbs
RECURSIVE DecimalLimbs(_)
DecimalLimbs(v) ==
  LET d == DivTen(v)
  IN  IF d.q = U64Zero THEN <<DigitChars[d.r + 1]>>
      ELSE Append(DecimalLimbs(d.q), DigitChars[d.r + 1])

\* the decimal digits of the value of a 64-bit vector
DecimalOf(bv) == DecimalLimbs(<<Limb(bv, 0), Limb(bv, 1), Limb(bv, 2), Limb(bv, 3)>>)

AllDigits(s) == Len(s) >= 1 /\ \A i \in 1..Len(s) : IndexOf(DigitChars, s[i]) # 0

\* C12 as claimed: every non-empty string of decimal digits with a value of at
\* most 2^64 - 1 decodes to 64 bits with that value
RECURSIVE StripZeros(_)
StripZeros(s) == IF Len(s) >= 2 /\ s[1] = "0" THEN StripZeros(Tail(s)) ELSE s

C12_EveryDigitString ==
  (pc = "decoded" /\ AllDigits(lit) /\ ~ExceedsU64(StripZeros(lit))) =>
    /\ dec.ret = "true"
    /\ Len(dec.out) = 64
    /\ DecimalOf(dec.out) = StripZeros(lit)

\* C12 as amended: every string of decimal digits that is "0" or has no
\* leading zero, with a value of at most 2^64 - 1, decodes to 64 bits with
\* that value
C12_DecimalValue ==
  (pc = "decoded" /\ AllDigits(lit) /\ (Len(lit) = 1 \/ lit[1] # "0") /\ ~ExceedsU64(lit)) =>
    /\ dec.ret = "true"
    /\ Len(dec.out) = 64
    /\ DecimalOf(dec.out) = lit

\* 2^64 - 1 was decoded
C12_Witness ==
  /\ pc = "decoded"
  /\ lit = U64MaxDigits
  /\ dec.ret = "true"

\* C13: a string of N characters over 0, 1, x, X decodes to N bits, bit i set
\* exactly when the character at N-1-i is 1; any other character is fatal
C13_BinaryConstant ==
  pc = "constant" =>
    IF \A i \in 1..Len(lit) : lit[i] \in {"0", "1", "x", "X"}
      THEN /\ dec.ret = "true"
           /\ Len(dec.out) = Len(lit)
           /\ \A i \in 0..(Len(lit) - 1) : dec.out[i + 1] = (lit[Len(lit) - i] = "1")
      ELSE dec.ret = "fatal" /\ dec.msg = "invalid character in integer constant"

\* a constant that differs from its mirror image was decoded
C13_Witness ==
  /\ pc = "constant"
  /\ lit = <<"1", "x", "0">>
  /\ dec.out = <<FALSE, FALSE, TRUE>>

(* ------------------------------------------------------------------ *)
(* Directive parser (blif.cc 140-384)                                  *)
(* ------------------------------------------------------------------ *)
\* the lines an input is made of, each the words of one logical line
Lines ==
  { <<>>,
    <<".model", "top">>, <<".model">>,
    <<".inputs", "a">>, <<".inputs", "a", "b">>, <<".outputs", "a">>, <<".outputs", "b">>,
    <<".names", "a">>, <<".names", "a", "b">>, <<".names", "b", "a">>, <<".names", "a", "b", "c">>,
    <<"0">>, <<"1">>, <<"2">>, <<"1", "1">>, <<"1", "0">>, <<"1", "1", "1">>,
    <<".gate", "SB_IO", "PACKAGE_PIN=a">>, <<".gate", "SB_LUT4", "O=a">>,
    <<".gate", "SB_LUT4", "O=", "I0=b">>, <<".gate", "SB_LUT4", "Q=a">>,
    <<".gate", "SB_LUT4", "O">>, <<".gate", "SB_DFF">>, <<".gate">>,
    <<".attr", "k", "1x">>, <<".attr", "k", "12">>, <<".attr", "k">>,
    <<".param", "k", "\"0b1\"">>, <<".param", "k">>,
    <<".end">>, <<".subckt", "top">> }

\* the words whose first character is a dot
DotWords ==
  {".model", ".inputs", ".outputs", ".names", ".gate", ".attr", ".param", ".end", ".subckt"}

\* line[0] == '.'
is_directive(l) == l[1] \in DotWords

\* w.find('=') and the two substrings around it; <<>> when w has no '='
formal_actual(w) ==
  CASE w = "PACKAGE_PIN=a" -> <<"PACKAGE_PIN", "a">>
    [] w = "O=a" -> <<"O", "a">>
    [] w = "O=" -> <<"O", "">>
    [] w = "I0=b" -> <<"I0", "b">>
    [] w = "Q=a" -> <<"Q", "a">>
    [] OTHER -> <<>>

\* the characters of the value word of .attr and .param, and whether the
\* word is quoted (words[2][0] == '"'); the characters of a quoted word are
\* those between the quotes
value_word(w) ==
  CASE w = "1x" -> [quoted |-> FALSE, chars |-> <<"1", "x">>]
    [] w = "12" -> [quoted |-> FALSE, chars |-> <<"1", "2">>]
    [] w = "\"0b1\"" -> [quoted |-> TRUE, chars |-> <<"0", "b", "1">>]

postVars == <<replacement, edge, boundary_nets, conn0, nets0>>
tableVars == <<names_n, names_net, saw11, rows>>

\* the outer loop at end of input
OuterEof ==
  /\ pc = "loop"
  /\ pc' = "M"
  /\ UNCHANGED <<err, parseVars, nets, conn, postVars, decVars>>

\* the outer loop reads a line: a blank line is skipped, a directive goes to
\* the dispatcher, anything else is fatal
OuterRead ==
  /\ pc = "loop"
  /\ nread < MaxLines
  /\ \E l \in Lines :
       /\ line' = l
       /\ nread' = nread + 1
       /\ IF l = <<>> THEN UNCHANGED <<pc, err>>
          ELSE IF is_directive(l) THEN pc' = "L" /\ UNCHANGED err
          ELSE Fatal("expected directive")
  /\ UNCHANGED <<top, ports, instances, inst, unify, tableVars, models_seen, premature,
                 nets, conn, postVars, decVars>>

\* .model without the test for an existing top model
Model_no_top_test ==
  /\ pc = "L" /\ line[1] = ".model"
  /\ models_seen' = models_seen + 1
  /\ IF Len(line) # 2
       THEN Fatal("invalid .model directive") /\ UNCHANGED top
       ELSE top' = TRUE /\ pc' = "loop" /\ UNCHANGED err
  /\ UNCHANGED <<line, nread, ports, instances, inst, unify, tableVars, premature,
                 nets, conn, postVars, decVars>>

\* .model
Model ==
  /\ pc = "L" /\ line[1] = ".model"
  /\ models_seen' = models_seen + 1
  /\ IF Len(line) # 2
       THEN Fatal("invalid .model directive") /\ UNCHANGED top
       ELSE IF top
         THEN Fatal("definition of multiple models is not supported") /\ UNCHANGED top
         ELSE top' = TRUE /\ pc' = "loop" /\ UNCHANGED err
  /\ UNCHANGED <<line, nread, ports, instances, inst, unify, tableVars, premature,
                 nets, conn, postVars, decVars>>

\* add_ports with the direction of an existing port overwritten
RECURSIVE add_ports_overwrite(_, _, _)
add_ports_overwrite(g, names, dir) ==
  IF names = <<>> THEN g
  ELSE LET name == Head(names)
           pt == [x \in DOMAIN g.ports \cup {name} |-> IF x = name THEN dir ELSE g.ports[x]]
       IN  add_ports_overwrite([ports |-> pt,
                                nets  |-> find_or_add_net(g.nets, name),
                                conn  |-> connect(g.conn, <<0, name>>, name)],
                               Tail(names), dir)

\* the loop over the words of .inputs (dir IN, other OUT) or .outputs (dir OUT, other IN)
RECURSIVE add_ports(_, _, _)
add_ports(g, names, dir) ==
  IF names = <<>> THEN g
  ELSE LET name == Head(names)
           other == IF dir = "IN" THEN "OUT" ELSE "IN"
           pt == IF name \in DOMAIN g.ports
                   THEN [g.ports EXCEPT ![name] = IF @ = other THEN "INOUT" ELSE @]
                   ELSE [x \in DOMAIN g.ports \cup {name} |->
                           IF x = name THEN dir ELSE g.ports[x]]
       IN  add_ports([ports |-> pt,
                      nets  |-> find_or_add_net(g.nets, name),
                      conn  |-> connect(g.conn, <<0, name>>, name)],
                     Tail(names), dir)

Graph == [ports |-> ports, nets |-> nets, conn |-> conn]

\* .inputs
Inputs ==
  /\ pc = "L" /\ line[1] = ".inputs"
  /\ premature' = (premature \/ ~top)
  /\ IF ~top
       THEN Fatal(".inputs directive outside of model definition")
            /\ UNCHANGED <<ports, nets, conn>>
       ELSE LET g == add_ports(Graph, Tail(line), "IN")
            IN  /\ ports' = g.ports /\ nets' = g.nets /\ conn' = g.conn
                /\ pc' = "loop" /\ UNCHANGED err
  /\ UNCHANGED <<line, nread, top, instances, inst, unify, tableVars, models_seen,
                 postVars, decVars>>

\* .outputs
Outputs ==
  /\ pc = "L" /\ line[1] = ".outputs"
  /\ premature' = (premature \/ ~top)
  /\ IF ~top
       THEN Fatal(".outputs directive outside of model definition")
            /\ UNCHANGED <<ports, nets, conn>>
       ELSE LET g == add_ports(Graph, Tail(line), "OUT")
            IN  /\ ports' = g.ports /\ nets' = g.nets /\ conn' = g.conn
                /\ pc' = "loop" /\ UNCHANGED err
  /\ UNCHANGED <<line, nread, top, instances, inst, unify, tableVars, models_seen,
                 postVars, decVars>>

\* Net::set_is_constant(true); Net::set_constant(v)
set_constant(ns, n, v) == [ns EXCEPT ![n] = [is_constant |-> TRUE, constant |-> v]]

\* .names, up to the table
Names ==
  /\ pc = "L" /\ line[1] = ".names"
  /\ premature' = (premature \/ ~top)
  /\ IF ~top
       THEN /\ Fatal(".names directive outside of model definition")
            /\ UNCHANGED <<nets, unify, tableVars>>
       ELSE LET n == Len(line) IN
            IF n = 2
              THEN /\ nets' = set_constant(find_or_add_net(nets, line[2]), line[2], "ZERO")
                   /\ names_net' = line[2]
                   /\ names_n' = n /\ saw11' = FALSE /\ rows' = <<>>
                   /\ pc' = "table"
                   /\ UNCHANGED <<err, unify>>
            ELSE IF n = 3
              THEN /\ nets' = find_or_add_net(find_or_add_net(nets, line[2]), line[3])
                   /\ unify' = Append(unify, <<line[2], line[3]>>)
                   /\ names_net' = NoNet
                   /\ names_n' = n /\ saw11' = FALSE /\ rows' = <<>>
                   /\ pc' = "table"
                   /\ UNCHANGED err
            ELSE /\ Fatal("invalid .names directive: expected 1 or 2 arguments")
                 /\ UNCHANGED <<nets, unify, tableVars>>
  /\ UNCHANGED <<line, nread, top, ports, instances, inst, models_seen, conn,
                 postVars, decVars>>

\* the table loop at end of input
NamesEof ==
  /\ pc = "table"
  /\ IF names_n = 3 /\ ~saw11
       THEN Fatal("invalid .names directive: unexpected end of file")
       ELSE pc' = "M" /\ UNCHANGED err
  /\ UNCHANGED <<parseVars, nets, conn, postVars, decVars>>

\* names_row with only the first field of a two-field row tested
names_row_first_field(n, l, ns, net, s11) ==
  IF Len(l) # n - 1
    THEN [fatal |-> "invalid .names entry: number of gates does not match specified number of nets",
          nets |-> ns, saw11 |-> s11]
  ELSE IF n = 2
    THEN IF l[1] = "1"
           THEN [fatal |-> "", nets |-> [ns EXCEPT ![net].constant = "ONE"], saw11 |-> s11]
         ELSE IF l[1] # "0"
           THEN [fatal |-> "invalid .names entry: gate must be either 1 or 0",
                 nets |-> ns, saw11 |-> s11]
         ELSE [fatal |-> "", nets |-> ns, saw11 |-> s11]
  ELSE IF l[1] # "1"
    THEN [fatal |-> "invalid .names entry: both gates must be 1 here",
          nets |-> ns, saw11 |-> s11]
  ELSE [fatal |-> "", nets |-> ns, saw11 |-> TRUE]

\* names_row with a "0" row overwriting the constant
names_row_overwrite(n, l, ns, net, s11) ==
  IF Len(l) # n - 1
    THEN [fatal |-> "invalid .names entry: number of gates does not match specified number of nets",
          nets |-> ns, saw11 |-> s11]
  ELSE IF n = 2
    THEN IF l[1] = "1"
           THEN [fatal |-> "", nets |-> [ns EXCEPT ![net].constant = "ONE"], saw11 |-> s11]
         ELSE IF l[1] # "0"
           THEN [fatal |-> "invalid .names entry: gate must be either 1 or 0",
                 nets |-> ns, saw11 |-> s11]
         ELSE [fatal |-> "", nets |-> [ns EXCEPT ![net].constant = "ZERO"], saw11 |-> s11]
  ELSE IF l[1] # "1" \/ l[2] # "1"
    THEN [fatal |-> "invalid .names entry: both gates must be 1 here",
          nets |-> ns, saw11 |-> s11]
  ELSE [fatal |-> "", nets |-> ns, saw11 |-> TRUE]

\* names_row with any single field but "1" taken for "0"
names_row_any_field(n, l, ns, net, s11) ==
  IF Len(l) # n - 1
    THEN [fatal |-> "invalid .names entry: number of gates does not match specified number of nets",
          nets |-> ns, saw11 |-> s11]
  ELSE IF n = 2
    THEN IF l[1] = "1"
           THEN [fatal |-> "", nets |-> [ns EXCEPT ![net].constant = "ONE"], saw11 |-> s11]
         ELSE [fatal |-> "", nets |-> ns, saw11 |-> s11]
  ELSE IF l[1] # "1" \/ l[2] # "1"
    THEN [fatal |-> "invalid .names entry: both gates must be 1 here",
          nets |-> ns, saw11 |-> s11]
  ELSE [fatal |-> "", nets |-> ns, saw11 |-> TRUE]

\* the effect of one table row l of a .names with n words
names_row(n, l, ns, net, s11) ==
  IF Len(l) # n - 1
    THEN [fatal |-> "invalid .names entry: number of gates does not match specified number of nets",
          nets |-> ns, saw11 |-> s11]
  ELSE IF n = 2
    THEN IF l[1] = "1"
           THEN [fatal |-> "", nets |-> [ns EXCEPT ![net].constant = "ONE"], saw11 |-> s11]
         ELSE IF l[1] # "0"
           THEN [fatal |-> "invalid .names entry: gate must be either 1 or 0",
                 nets |-> ns, saw11 |-> s11]
         ELSE [fatal |-> "", nets |-> ns, saw11 |-> s11]
  ELSE IF l[1] # "1" \/ l[2] # "1"
    THEN [fatal |-> "invalid .names entry: both gates must be 1 here",
          nets |-> ns, saw11 |-> s11]
  ELSE [fatal |-> "", nets |-> ns, saw11 |-> TRUE]

\* NamesRead with a directive closing the table whether or not a "1" "1" row
\* was seen
NamesRead_any_close ==
  /\ pc = "table"
  /\ nread < MaxLines
  /\ \E l \in Lines :
       /\ line' = l
       /\ nread' = nread + 1
       /\ IF l = <<>> THEN UNCHANGED <<pc, err, nets, saw11, rows>>
          ELSE IF is_directive(l)
            THEN /\ pc' = "L" /\ UNCHANGED err
                 /\ UNCHANGED <<nets, saw11, rows>>
          ELSE LET row == names_row(names_n, l, nets, names_net, saw11)
               IN  /\ nets' = row.nets
                   /\ saw11' = row.saw11
                   /\ rows' = Append(rows, l)
                   /\ IF row.fatal # "" THEN Fatal(row.fatal) ELSE UNCHANGED <<pc, err>>
  /\ UNCHANGED <<top, ports, instances, inst, unify, names_n, names_net, models_seen,
                 premature, conn, postVars, decVars>>

\* NamesRead with the directive that closes the table consumed: the outer
\* loop goes on with the line after it
NamesRead_consume ==
  /\ pc = "table"
  /\ nread < MaxLines
  /\ \E l \in Lines :
       /\ line' = l
       /\ nread' = nread + 1
       /\ IF l = <<>> THEN UNCHANGED <<pc, err, nets, saw11, rows>>
          ELSE IF is_directive(l)
            THEN /\ IF names_n = 3 /\ ~saw11
                      THEN Fatal("invalid .names directive: .names entry expected")
                      ELSE pc' = "loop" /\ UNCHANGED err
                 /\ UNCHANGED <<nets, saw11, rows>>
          ELSE LET row == names_row(names_n, l, nets, names_net, saw11)
               IN  /\ nets' = row.nets
                   /\ saw11' = row.saw11
                   /\ rows' = Append(rows, l)
                   /\ IF row.fatal # "" THEN Fatal(row.fatal) ELSE UNCHANGED <<pc, err>>
  /\ UNCHANGED <<top, ports, instances, inst, unify, names_n, names_net, models_seen,
                 premature, conn, postVars, decVars>>

\* the table loop reads a line: a blank line is skipped, a directive closes
\* the table and goes to the dispatcher, anything else is a row
NamesRead ==
  /\ pc = "table"
  /\ nread < MaxLines
  /\ \E l \in Lines :
       /\ line' = l
       /\ nread' = nread + 1
       /\ IF l = <<>> THEN UNCHANGED <<pc, err, nets, saw11, rows>>
          ELSE IF is_directive(l)
            THEN /\ IF names_n = 3 /\ ~saw11
                      THEN Fatal("invalid .names directive: .names entry expected")
                      ELSE pc' = "L" /\ UNCHANGED err
                 /\ UNCHANGED <<nets, saw11, rows>>
          ELSE LET row == names_row(names_n, l, nets, names_net, saw11)
               IN  /\ nets' = row.nets
                   /\ saw11' = row.saw11
                   /\ rows' = Append(rows, l)
                   /\ IF row.fatal # "" THEN Fatal(row.fatal) ELSE UNCHANGED <<pc, err>>
  /\ UNCHANGED <<top, ports, instances, inst, unify, names_n, names_net, models_seen,
                 premature, conn, postVars, decVars>>

\* the loop over the formal=actual words of .gate for instance i of model m
RECURSIVE connect_formals(_, _, _, _)
connect_formals(g, ws, i, m) ==
  IF ws = <<>> \/ g.fatal # "" THEN g
  ELSE LET fa == formal_actual(Head(ws)) IN
       IF fa = <<>> THEN [g EXCEPT !.fatal = "invalid formal-actual"]
       ELSE IF fa[2] = "" THEN connect_formals(g, Tail(ws), i, m)
       ELSE IF fa[1] \notin DOMAIN StandardModels[m] THEN [g EXCEPT !.fatal = "unknown formal"]
       ELSE connect_formals([fatal |-> "",
                             nets |-> find_or_add_net(g.nets, fa[2]),
                             conn |-> connect(g.conn, <<i, fa[1]>>, fa[2])],
                            Tail(ws), i, m)

\* .gate
Gate ==
  /\ pc = "L" /\ line[1] = ".gate"
  /\ premature' = (premature \/ ~top)
  /\ IF ~top
       THEN /\ Fatal(".gate directive outside of model definition")
            /\ UNCHANGED <<instances, inst, nets, conn>>
       ELSE IF Len(line) < 2
         THEN /\ Fatal("invalid .gate directive: missing name")
              /\ UNCHANGED <<instances, inst, nets, conn>>
       ELSE IF line[2] \notin DOMAIN StandardModels
         THEN /\ Fatal("unknown model")
              /\ UNCHANGED <<instances, inst, nets, conn>>
       ELSE LET i == Len(instances) + 1
                g == connect_formals([fatal |-> "", nets |-> nets, conn |-> conn],
                                     SubSeq(line, 3, Len(line)), i, line[2])
            IN  /\ instances' = Append(instances, line[2])
                /\ inst' = i
                /\ nets' = g.nets /\ conn' = g.conn
                /\ IF g.fatal # "" THEN Fatal(g.fatal) ELSE pc' = "loop" /\ UNCHANGED err
  /\ UNCHANGED <<line, nread, top, ports, unify, tableVars, models_seen, postVars, decVars>>

\* .attr: the value is stored as a string when quoted, as stobv decodes it
\* otherwise
Attr ==
  /\ pc = "L" /\ line[1] = ".attr"
  /\ IF Len(line) # 3
       THEN Fatal("invalid .attr directive: expected exactly 2 arguments") /\ UNCHANGED decVars
       ELSE IF inst = 0
         THEN Fatal("no gate for .attr directive") /\ UNCHANGED decVars
       ELSE LET w == value_word(line[3]) IN
            /\ lit' = w.chars
            /\ IF w.quoted
                 THEN dec' = Result("false", <<>>, "") /\ pc' = "loop" /\ UNCHANGED err
                 ELSE /\ dec' = stobv(w.chars)
                      /\ IF dec'.ret = "fatal" THEN Fatal(dec'.msg)
                                               ELSE pc' = "loop" /\ UNCHANGED err
  /\ UNCHANGED <<parseVars, nets, conn, postVars>>

\* .param: a quoted value is stored as radiant_stobv decodes it, or as a
\* string when it does not; an unquoted value as stobv decodes it
Param ==
  /\ pc = "L" /\ line[1] = ".param"
  /\ IF Len(line) # 3
       THEN Fatal("invalid .param directive: expected exactly 2 arguments") /\ UNCHANGED decVars
       ELSE IF inst = 0
         THEN Fatal("no gate for .param directive") /\ UNCHANGED decVars
       ELSE LET w == value_word(line[3]) IN
            /\ lit' = w.chars
            /\ \E o \in (IF w.quoted THEN radiant_stobv(w.chars) ELSE {stobv(w.chars)}) :
                 /\ dec' = o
                 /\ IF o.ret \in {"fatal", "abort"} THEN Fatal(o.msg)
                                                   ELSE pc' = "loop" /\ UNCHANGED err
  /\ UNCHANGED <<parseVars, nets, conn, postVars>>

\* .end going back to the outer loop
End_to_loop ==
  /\ pc = "L" /\ line[1] = ".end"
  /\ premature' = (premature \/ ~top)
  /\ IF ~top THEN Fatal(".end directive outside of model definition")
             ELSE pc' = "loop" /\ UNCHANGED err
  /\ UNCHANGED <<line, nread, top, ports, instances, inst, unify, tableVars, models_seen,
                 nets, conn, postVars, decVars>>

\* .end
End ==
  /\ pc = "L" /\ line[1] = ".end"
  /\ premature' = (premature \/ ~top)
  /\ IF ~top THEN Fatal(".end directive outside of model definition")
             ELSE pc' = "M" /\ UNCHANGED err
  /\ UNCHANGED <<line, nread, top, ports, instances, inst, unify, tableVars, models_seen,
                 nets, conn, postVars, decVars>>

\* any other directive
Unknown ==
  /\ pc = "L"
  /\ line[1] \notin {".model", ".inputs", ".outputs", ".names", ".gate", ".attr", ".param", ".end"}
  /\ Fatal("unknown directive")
  /\ UNCHANGED <<parseVars, nets, conn, postVars, decVars>>

Init ==
  /\ pc = "loop" /\ err = ""
  /\ line = <<>> /\ nread = 0
  /\ top = FALSE
  /\ ports = <<>> /\ nets = <<>> /\ conn = <<>>
  /\ instances = <<>> /\ inst = 0
  /\ unify = <<>>
  /\ names_n = 0 /\ names_net = NoNet /\ saw11 = FALSE /\ rows = <<>>
  /\ replacement = <<>> /\ edge = 1 /\ boundary_nets = {}
  /\ conn0 = <<>>
  /\ nets0 = <<>>
  /\ models_seen = 0 /\ premature = FALSE
  /\ lit = <<>> /\ dec = Result("none", <<>>, "")

Next ==
  \/ OuterEof
  \/ OuterRead
  \/ Model
  \/ Inputs
  \/ Outputs
  \/ Names
  \/ NamesEof
  \/ NamesRead
  \/ Gate
  \/ Attr
  \/ Param
  \/ End
  \/ Unknown
  \/ LabelM
  \/ UnifyEdge
  \/ RemoveReplaced
  \/ BidirCheck
  \/ BoundaryNets
  \/ DriverCheck

Spec == Init /\ [][Next]_vars

(* ------------------------------------------------------------------ *)
(* Claims about the directive parser                                   *)
(* ------------------------------------------------------------------ *)
\* positions of parse() before the unifier changes the graph, fatal excluded
Parsing == {"loop", "L", "table", "M"}
\* positions of parse() past label M
PastM == {"unify"} \cup Validated

\* C5: in the table of a 2-argument .names every row is "1" "1", any other
\* row is the last one read and fatal, and the table is left without error,
\* by a directive or by end of input, only after a "1" "1" row
C5_NamesTwoArgRows ==
  names_n = 3 =>
    /\ \A i \in 1..Len(rows) :
         rows[i] = <<"1", "1">> \/ (i = Len(rows) /\ pc = "fatal")
    /\ pc \notin {"table", "fatal"} =>
         (Len(rows) >= 1 /\ \A i \in 1..Len(rows) : rows[i] = <<"1", "1">>)
    /\ saw11 = (\E i \in 1..Len(rows) : rows[i] = <<"1", "1">>)

\* the table of a 2-argument .names is closed by a directive after a "1" "1" row
C5_Witness ==
  /\ pc = "L" /\ names_n = 3
  /\ rows = << <<"1", "1">> >>
  /\ line[1] \in DotWords

\* the constant named by a row of a 1-argument .names
RowValue(row) == IF row = <<"1">> THEN "ONE" ELSE "ZERO"

\* C6 as claimed: after a 1-argument table the constant is the value named by the last row
C6_LastRowWins ==
  (names_n = 2 /\ pc \in Parsing /\ rows # <<>>) =>
    nets[names_net].constant = RowValue(rows[Len(rows)])

\* C6 as amended: rows are applied in file order, a "1" row sets the constant
\* to ONE and a "0" row leaves it as it is, so the constant is ONE exactly
\* when some row is "1", whatever follows that row
C6_OneRowSticks ==
  (names_n = 2 /\ pc \in Parsing /\ rows # <<>>) =>
    nets[names_net].constant = (IF \E i \in 1..Len(rows) : rows[i] = <<"1">> THEN "ONE" ELSE "ZERO")

\* a "1" row followed by a "0" row has been read and the constant is ONE
C6_Witness ==
  /\ names_n = 2 /\ pc = "table"
  /\ rows = << <<"1">>, <<"0">> >>
  /\ nets[names_net].constant = "ONE"

\* C7: a 1-argument .names makes its net constant at once; the constant is
\* ZERO with no rows or only "0" rows and ONE with a single "1" row; a row
\* that is not the single field "0" or "1" is fatal
C7_NamesOneArg ==
  names_n = 2 =>
    /\ pc \in Parsing =>
         /\ names_net \in DOMAIN nets
         /\ nets[names_net].is_constant
         /\ (\A i \in 1..Len(rows) : rows[i] = <<"0">>) => nets[names_net].constant = "ZERO"
         /\ rows = << <<"1">> >> => nets[names_net].constant = "ONE"
    /\ (\E i \in 1..Len(rows) : rows[i] \notin {<<"0">>, <<"1">>}) => pc = "fatal"

\* the table of a 1-argument .names was closed after a single "1" row
C7_Witness ==
  /\ names_n = 2 /\ pc = "M"
  /\ rows = << <<"1">> >>
  /\ nets[names_net] = [is_constant |-> TRUE, constant |-> "ONE"]

\* C8: parse() gets past label M only with a top model, after exactly one
\* .model directive that preceded every directive needing the top model; a
\* second .model and a directive needing a missing top model are fatal
C8_OneModelFirst ==
  /\ pc \in PastM => (top /\ models_seen = 1 /\ ~premature)
  /\ models_seen >= 2 => pc = "fatal"
  /\ premature => pc = "fatal"
  /\ top => models_seen >= 1

\* a design is returned for an input of a .model and further directives
C8_Witness ==
  /\ pc = "done"
  /\ models_seen = 1
  /\ DOMAIN ports # {} /\ instances # <<>>

\* the messages of the fatal errors past label M
PostErrors ==
  {".names cycle", "conflicting .names outputs",
   "toplevel inout port not connected to SB_IO PACKAGE_PIN",
   "SB_IO PACKAGE_PIN not connected to toplevel port",
   "net has multiple drivers"}

\* C14: once .end is dispatched with a top model, by the outer loop or as the
\* directive closing a table, control goes to label M with the graph as it
\* is, and from then on no line is read or dispatched: the position stays
\* past the loop and an error can only come from unification or validation
C14_EndTerminates ==
  [][(line = <<".end">> /\ top /\ pc \in ({"L", "M"} \cup PastM)) =>
       /\ line' = line /\ nread' = nread
       /\ pc' \in ({"M", "fatal"} \cup PastM)
       /\ pc = "L" => (pc' = "M" /\ <<ports, nets, conn, instances, unify>>' =
                                      <<ports, nets, conn, instances, unify>>)
       /\ pc' = "fatal" => err' \in PostErrors]_vars

\* a design is returned after a .end that closed a table, with input left to read
C14_Witness ==
  /\ pc = "done"
  /\ line = <<".end">>
  /\ rows # <<>>
  /\ nread < MaxLines

\* C15: a fatal error is terminal: from it no line is read, no edge is
\* applied, no check runs and no design is returned; and while the table of
\* the latest 2-argument .names has no "1" "1" row, parse() stays in that
\* table or ends in a fatal error, so the edge it queued is never processed
C15_FailFast ==
  [][/\ pc # "fatal"
     /\ (names_n = 3 /\ ~saw11) =>
          /\ pc' \in {"table", "fatal"}
          /\ <<unify, edge, replacement, conn>>' = <<unify, edge, replacement, conn>>]_vars

\* a 2-argument .names queued an edge and its table was closed by a
\* directive before any "1" "1" row: fatal, with no edge processed
C15_Witness ==
  /\ pc = "fatal"
  /\ err = "invalid .names directive: .names entry expected"
  /\ Len(unify) >= 1
  /\ edge = 1 /\ replacement = <<>>

\* the two-level machine: the level of a position of the parser, and whether
\* the slot of the pending unread directive is full
Level == IF pc = "table" THEN "IN_NAMES_TABLE" ELSE "TOP"
Pending == pc = "L"

\* C16: a line is read only with the slot empty; a blank line changes
\* nothing; a directive read at either level fills the slot (or, closing a
\* 2-argument table without a "1" "1" row, is fatal) and is never a row; any
\* other line is a row of the open table, or fatal at the top level; a full
\* slot is emptied by the next step, which dispatches that very line without
\* reading another, and a pending .names with 1 or 2 arguments opens a new
\* empty table
C16_TwoLevelMachine ==
  [][/\ nread' # nread =>
          /\ ~Pending /\ pc \in {"loop", "table"}
          /\ nread' = nread + 1
          /\ IF line' = <<>>
               THEN pc' = pc /\ rows' = rows
             ELSE IF is_directive(line')
               THEN /\ rows' = rows /\ nets' = nets
                    /\ IF Level = "IN_NAMES_TABLE" /\ names_n = 3 /\ ~saw11
                         THEN pc' = "fatal" ELSE pc' = "L"
             ELSE IF Level = "IN_NAMES_TABLE"
               THEN rows' = Append(rows, line') /\ pc' \in {"table", "fatal"}
             ELSE pc' = "fatal" /\ rows' = rows
     /\ Pending =>
          /\ is_directive(line)
          /\ line' = line /\ nread' = nread
          /\ pc' \in {"loop", "table", "M", "fatal"}
          /\ pc' = "table" <=> (line[1] = ".names" /\ top /\ Len(line) \in {2, 3})
          /\ pc' = "table" => (rows' = <<>> /\ ~saw11' /\ names_n' = Len(line))
          /\ pc' = "M" <=> (line[1] = ".end" /\ top)]_vars

\* back-to-back tables: the .names that closed the table of the first .names
\* has opened its own table
C16_Witness ==
  /\ pc = "table" /\ rows = <<>>
  /\ nread = 4
  /\ unify = << <<"a", "b">>, <<"b", "a">> >>
  /\ line = <<".names", "b", "a">>

\* the directives a direction stands for, none for a name without port
Roles(ps, n) ==
  IF n \notin DOMAIN ps THEN {}
  ELSE IF ps[n] = "IN" THEN {".inputs"}
  ELSE IF ps[n] = "OUT" THEN {".outputs"}
  ELSE {".inputs", ".outputs"}

\* the names a dispatched .inputs or .outputs directive lists
Listed(d) ==
  IF pc = "L" /\ top /\ line[1] = d THEN {line[i] : i \in 2..Len(line)} ELSE {}

\* C19: the ports are one per name, and every step adds to the roles of a
\* name exactly the directive that lists it: so a port is IN after .inputs
\* only, OUT after .outputs only, INOUT after both, in any order and with
\* any repetition, and never goes back; while the directives are read every
\* port is connected to the net of its name
C19_PortPromotion ==
  /\ [](pc \in Parsing =>
          \A n \in DOMAIN ports :
             /\ <<0, n>> \in DOMAIN conn /\ conn[<<0, n>>] = n
             /\ n \in DOMAIN nets)
  /\ [][\A n \in NetNames :
           Roles(ports', n) =
             Roles(ports, n) \cup {d \in {".inputs", ".outputs"} : n \in Listed(d)}]_vars

\* port a, made by .outputs, was promoted by a .inputs that also made port b
C19_Witness ==
  /\ pc = "loop"
  /\ line = <<".inputs", "a", "b">>
  /\ ports = [n \in {"a", "b"} |-> IF n = "a" THEN "INOUT" ELSE "IN"]

====
